---- MODULE Spec2Model ----
(***************************************************************************)
(* WatchPulse: the daily statistics pipeline (services/wait_time.py), its  *)
(* batch entry point (ingest/run_ingest.py) and the ingest validations     *)
(* (ingest/validate.py), as state machines over the Supabase tables        *)
(* brand_models, market_listings, listing_snapshots and model_daily_stats. *)
(*                                                                         *)
(* Numbers.  The floats of wait_time.py are modelled as exact rationals    *)
(* <<num, den>> in lowest terms; the float of validate.py that is compared *)
(* with a threshold is modelled as the IEEE 754 binary64 value the         *)
(* interpreter computes.  A value rounded by round(x, k) is held as the    *)
(* integer number of 10^-k units (3000 is 0.3000, 10000 is 100.00).        *)
(* Python None and SQL NULL are the empty tuple; a present nullable value  *)
(* v is the one-element tuple <<v>>.  Dates are day numbers.               *)
(***************************************************************************)
EXTENDS Integers, Sequences, FiniteSets, TLC

VARIABLES
    market_listings,    \* table market_listings: rows id, model_id, created_at, url
    listing_snapshots,  \* table listing_snapshots: one row per (listing_id, captured_date)
    model_daily_stats,  \* table model_daily_stats: the rows upserted by the pipeline
    run,                \* per invocation of run(): its arguments, position and locals
    source_seen,        \* history: the size of the source tables when a run began
    sc_pc,              \* _score_rows call: "input" before the call, "scored" after it
    sc_rows,            \* its argument: the list of ModelDayRaw
    sc_weights,         \* its keyword arguments <<w1, w2, w3>>
    sc_scored,          \* its result: the list of row dicts
    va_pc,              \* call of one check of validate.py: "input", then which check ran
    va_args,            \* its arguments
    va_result           \* its result: <<count, examples>>

store_vars == <<market_listings, listing_snapshots, model_daily_stats>>
pipeline_vars == <<market_listings, listing_snapshots, model_daily_stats, run, source_seen>>
check_vars == <<va_pc, va_args, va_result>>
call_vars == <<sc_pc, sc_rows, sc_weights, sc_scored, va_pc, va_args, va_result>>
vars == <<market_listings, listing_snapshots, model_daily_stats, run, source_seen,
          sc_pc, sc_rows, sc_weights, sc_scored, va_pc, va_args, va_result>>

-----------------------------------------------------------------------------
(* None and nullable values *)

None == <<>>
Some(v) == <<v>>

-----------------------------------------------------------------------------
(* Exact arithmetic standing for the float operators of wait_time.py *)

Abs(n) == IF n < 0 THEN -n ELSE n

RECURSIVE Gcd(_, _)
Gcd(a, b) == IF b = 0 THEN a ELSE Gcd(b, a % b)

Rat(n, d) ==
    LET s == IF d < 0 THEN -1 ELSE 1
        g == Gcd(Abs(n), Abs(d))
    IN  <<(s * n) \div g, (s * d) \div g>>

float(n) == <<n, 1>>

Add(a, b) == Rat(a[1] * b[2] + b[1] * a[2], a[2] * b[2])
Sub(a, b) == Rat(a[1] * b[2] - b[1] * a[2], a[2] * b[2])
Mul(a, b) == Rat(a[1] * b[1], a[2] * b[2])
Div(a, b) == Rat(a[1] * b[2], a[2] * b[1])
Lt(a, b) == a[1] * b[2] < b[1] * a[2]

RECURSIVE min(_)
min(values) ==
    IF Len(values) = 1 THEN values[1]
    ELSE LET m == min(Tail(values))
         IN  IF Lt(m, values[1]) THEN m ELSE values[1]

RECURSIVE max(_)
max(values) ==
    IF Len(values) = 1 THEN values[1]
    ELSE LET m == max(Tail(values))
         IN  IF Lt(values[1], m) THEN m ELSE values[1]

(* round(x, ndigits): the nearest multiple of 10^-ndigits, ties to even,   *)
(* as the integer number of those units.                                   *)
round(x, ndigits) ==
    LET p == IF ndigits = 2 THEN 100 ELSE 10000
        n == x[1] * p
        f == n \div x[2]
        r == n % x[2]
    IN  IF 2 * r < x[2] THEN f
        ELSE IF 2 * r > x[2] THEN f + 1
        ELSE IF f % 2 = 0 THEN f ELSE f + 1

-----------------------------------------------------------------------------
(* IEEE 754 binary64, round to nearest, ties to even.  A positive double   *)
(* is <<m, e>>: m its 53 significand bits, most significant first, the     *)
(* value being m * 2^e; 0.0 is <<<<>>, 0>>.  Bit strings are worked on in  *)
(* limbs of six bits.                                                      *)

mantissa_bits == 53
limb_bits == 6
limb_base == 64

any_bit(b) == \E i \in 1..Len(b) : b[i] = 1

(* The bit string without its leading zeros *)
normal(b) ==
    IF ~any_bit(b) THEN <<>>
    ELSE LET first == CHOOSE i \in 1..Len(b) :
                          b[i] = 1 /\ \A j \in 1..(i - 1) : b[j] = 0
         IN  SubSeq(b, first, Len(b))

limbs_of(b) ==
    LET n == (Len(b) + limb_bits - 1) \div limb_bits
        pad == n * limb_bits - Len(b)
        bit(i) == IF i <= pad THEN 0 ELSE b[i - pad]
    IN  [j \in 1..n |->
            32 * bit(6 * j - 5) + 16 * bit(6 * j - 4) + 8 * bit(6 * j - 3)
                + 4 * bit(6 * j - 2) + 2 * bit(6 * j - 1) + bit(6 * j)]

bits_of(limbs) ==
    [i \in 1..(limb_bits * Len(limbs)) |->
        (limbs[(i - 1) \div limb_bits + 1]
            \div <<32, 16, 8, 4, 2, 1>>[((i - 1) % limb_bits) + 1]) % 2]

RECURSIVE limbs_int(_)
limbs_int(limbs) ==
    IF limbs = <<>> THEN 0
    ELSE limb_base * limbs_int(SubSeq(limbs, 1, Len(limbs) - 1)) + limbs[Len(limbs)]

(* The value of a bit string of at most 30 bits *)
bits_int(b) == limbs_int(limbs_of(b))

(* b + 1 *)
bits_inc(b) ==
    IF \A i \in 1..Len(b) : b[i] = 1 THEN <<1>> \o [i \in 1..Len(b) |-> 0]
    ELSE LET last == CHOOSE i \in 1..Len(b) :
                         b[i] = 0 /\ \A j \in (i + 1)..Len(b) : b[j] = 1
         IN  [i \in 1..Len(b) |-> IF i < last THEN b[i] ELSE IF i = last THEN 1 ELSE 0]

RECURSIVE mul_limbs(_, _, _)
mul_limbs(limbs, k, carry) ==
    IF limbs = <<>> THEN <<carry \div limb_base, carry % limb_base>>
    ELSE LET v == limbs[Len(limbs)] * k + carry
         IN  mul_limbs(SubSeq(limbs, 1, Len(limbs) - 1), k, v \div limb_base)
                 \o <<v % limb_base>>

(* b * k for 0 < k < 64 * 64 *)
mul_bits(b, k) == normal(bits_of(mul_limbs(limbs_of(b), k, 0)))

(* The n next base-64 digits of r / b for a remainder r < b, and what remains *)
RECURSIVE div_limbs(_, _, _)
div_limbs(r, b, n) ==
    IF n = 0 THEN <<<<>>, r>>
    ELSE LET v == r * limb_base
             rest == div_limbs(v % b, b, n - 1)
         IN  <<<<v \div b>> \o rest[1], rest[2]>>

(* The value b * 2^e, something non-zero following the bits b or not,      *)
(* rounded to 53 bits                                                      *)
round_bits(b, more, e) ==
    LET dropped == Len(b) - mantissa_bits
        kept == SubSeq(b, 1, mantissa_bits)
        guard == dropped > 0 /\ b[mantissa_bits + 1] = 1
        rest == more \/ any_bit(SubSeq(b, mantissa_bits + 2, Len(b)))
        up == guard /\ (rest \/ kept[mantissa_bits] = 1)
        inc == bits_inc(kept)
    IN  IF ~up THEN <<kept, e + dropped>>
        ELSE IF Len(inc) > mantissa_bits
             THEN <<SubSeq(inc, 1, mantissa_bits), e + dropped + 1>>
        ELSE <<inc, e + dropped>>

(* a / b scaled by a power of two into [1, 2): <<a1, b1, exponent>> *)
RECURSIVE scaled(_, _, _)
scaled(a, b, e) ==
    IF a < b THEN scaled(2 * a, b, e - 1)
    ELSE IF a >= 2 * b THEN scaled(a, 2 * b, e + 1)
    ELSE <<a, b, e>>

(* float(a) / float(b) for integers a >= 0, b > 0 *)
fdiv(a, b) ==
    IF a = 0 THEN <<<<>>, 0>>
    ELSE LET s == scaled(a, b, 0)
             q == div_limbs(s[1] - s[2], s[2], 9)
             bits == <<1>> \o bits_of(q[1])
         IN  round_bits(bits, q[2] # 0, s[3] - (Len(bits) - 1))

(* x * float(k) for a double x and an integer 0 < k < 64 * 64 *)
fmul(x, k) ==
    IF x[1] = <<>> THEN x ELSE round_bits(mul_bits(x[1], k), FALSE, x[2])

(* The integer part of b * 2^e for e < 0 and a value below 2^30, and the   *)
(* bits of its fraction                                                    *)
int_part(b, e) == IF Len(b) + e <= 0 THEN 0 ELSE bits_int(SubSeq(b, 1, Len(b) + e))

frac_bits(b, e) == IF Len(b) + e <= 0 THEN b ELSE SubSeq(b, Len(b) + e + 1, Len(b))

(* x > float(t) for a double x below 2^30 and an integer t >= 0 *)
fgt(x, t) ==
    IF x[1] = <<>> THEN FALSE
    ELSE \/ int_part(x[1], x[2]) > t
         \/ int_part(x[1], x[2]) = t /\ any_bit(frac_bits(x[1], x[2]))

(* round(x, 2) of a double x below 2^20, in hundredths: the decimal        *)
(* nearest to the exact value of x, ties to even                           *)
fround2(x) ==
    IF x[1] = <<>> THEN 0
    ELSE LET p == mul_bits(x[1], 100)
             whole == int_part(p, x[2])
             frac == frac_bits(p, x[2])
             lead == Len(frac) = -x[2] /\ frac[1] = 1
             rest == IF Len(frac) = -x[2] THEN any_bit(Tail(frac)) ELSE any_bit(frac)
         IN  IF lead /\ (rest \/ whole % 2 = 1) THEN whole + 1 ELSE whole

-----------------------------------------------------------------------------
(* services/wait_time.py: the scorer *)

_normalize_all_ones(values) ==
    IF values = <<>> THEN <<>>
    ELSE LET low == min(values)
             high == max(values)
         IN  IF high = low THEN [i \in 1..Len(values) |-> float(1)]
             ELSE [i \in 1..Len(values) |->
                      Div(Sub(values[i], low), Sub(high, low))]

_normalize(values) ==
    IF values = <<>> THEN <<>>
    ELSE LET low == min(values)
             high == max(values)
         IN  IF high = low THEN [i \in 1..Len(values) |-> float(0)]
             ELSE [i \in 1..Len(values) |->
                      Div(Sub(values[i], low), Sub(high, low))]

_wait_band_inclusive(index) ==
    IF ~Lt(Rat(25, 100), index) THEN "0-6 months"
    ELSE IF ~Lt(Rat(45, 100), index) THEN "6-18 months"
    ELSE IF ~Lt(Rat(65, 100), index) THEN "18 months-3 years"
    ELSE IF ~Lt(Rat(85, 100), index) THEN "3-5 years"
    ELSE "5-8+ years"

_wait_band(index) ==
    IF Lt(index, Rat(25, 100)) THEN "0-6 months"
    ELSE IF Lt(index, Rat(45, 100)) THEN "6-18 months"
    ELSE IF Lt(index, Rat(65, 100)) THEN "18 months-3 years"
    ELSE IF Lt(index, Rat(85, 100)) THEN "3-5 years"
    ELSE "5-8+ years"

(* The default weights of _score_rows. *)
w1_default == Rat(45, 100)
w2_default == Rat(30, 100)
w3_default == Rat(25, 100)

(* The three feature lists _score_rows builds from the batch. *)
premiums(rows) ==
    [i \in 1..Len(rows) |->
        IF rows[i].premium_over_msrp # None
        THEN rows[i].premium_over_msrp[1] ELSE float(0)]

availability(rows) == [i \in 1..Len(rows) |-> rows[i].availability_ratio]

velocities(rows) ==
    [i \in 1..Len(rows) |->
        Add(Mul(Rat(6, 10), rows[i].sold_rate_proxy),
            Mul(Rat(4, 10),
                IF rows[i].listings_count # 0
                THEN Rat(rows[i].new_listings_count, rows[i].listings_count)
                ELSE float(0)))]

(* The composite index of one row, clamped to [0, 1]. *)
wait_time_index_unclamped(w1, w2, w3, p, a, v) ==
    Add(Add(Mul(w1, p), Mul(w2, Sub(float(1), a))), Mul(w3, v))

wait_time_index_plain_availability(w1, w2, w3, p, a, v) ==
    LET x == Add(Add(Mul(w1, p), Mul(w2, a)), Mul(w3, v))
    IN  IF Lt(x, float(0)) THEN float(0)
        ELSE IF Lt(float(1), x) THEN float(1) ELSE x

wait_time_index(w1, w2, w3, p, a, v) ==
    LET x == Add(Add(Mul(w1, p), Mul(w2, Sub(float(1), a))), Mul(w3, v))
    IN  IF Lt(x, float(0)) THEN float(0)
        ELSE IF Lt(float(1), x) THEN float(1) ELSE x

_score_rows_band_of_rounded(rows, w1, w2, w3) ==
    LET premium_norm == _normalize(premiums(rows))
        availability_norm == _normalize(availability(rows))
        velocity_norm == _normalize(velocities(rows))
    IN  [idx \in 1..Len(rows) |->
            LET row == rows[idx]
                index == wait_time_index(w1, w2, w3, premium_norm[idx],
                                         availability_norm[idx], velocity_norm[idx])
            IN  [model_id |-> row.model_id,
                 captured_date |-> row.captured_date,
                 median_price |-> round(row.median_price, 2),
                 listings_count |-> row.listings_count,
                 new_listings_count |-> row.new_listings_count,
                 sold_rate_proxy |-> round(row.sold_rate_proxy, 4),
                 premium_over_msrp |->
                     IF row.premium_over_msrp # None
                     THEN Some(round(row.premium_over_msrp[1], 4)) ELSE None,
                 wait_time_index |-> round(index, 4),
                 wait_band |-> _wait_band(Rat(round(index, 4), 10000))]]

_score_rows(rows, w1, w2, w3) ==
    LET premium_norm == _normalize(premiums(rows))
        availability_norm == _normalize(availability(rows))
        velocity_norm == _normalize(velocities(rows))
    IN  [idx \in 1..Len(rows) |->
            LET row == rows[idx]
                index == wait_time_index(w1, w2, w3, premium_norm[idx],
                                         availability_norm[idx], velocity_norm[idx])
            IN  [model_id |-> row.model_id,
                 captured_date |-> row.captured_date,
                 median_price |-> round(row.median_price, 2),
                 listings_count |-> row.listings_count,
                 new_listings_count |-> row.new_listings_count,
                 sold_rate_proxy |-> round(row.sold_rate_proxy, 4),
                 premium_over_msrp |->
                     IF row.premium_over_msrp # None
                     THEN Some(round(row.premium_over_msrp[1], 4)) ELSE None,
                 wait_time_index |-> round(index, 4),
                 wait_band |-> _wait_band(index)]]

-----------------------------------------------------------------------------
(* services/wait_time.py: the raw aggregator *)

(* The tail of _calc_model_raw: the record built from the matched rows.    *)
ModelDayRaw(model_id, captured_date, msrp, median_price, listings_count, available_count, created_today, avg_shipping_days) ==
    LET availability_ratio ==
            IF listings_count # 0 THEN Rat(available_count, listings_count)
            ELSE float(0)
    IN  [model_id |-> model_id,
         captured_date |-> captured_date,
         msrp |-> msrp,
         median_price |-> median_price,
         listings_count |-> listings_count,
         new_listings_count |-> created_today,
         sold_rate_proxy |-> Sub(float(1), availability_ratio),
         premium_over_msrp |->
             IF msrp # None /\ msrp[1] > 0
             THEN Some(Sub(Div(median_price, float(msrp[1])), float(1)))
             ELSE None,
         availability_ratio |-> availability_ratio,
         avg_shipping_days |-> avg_shipping_days]

(* The non-null prices of a set of snapshot rows, ascending. *)
RECURSIVE sorted_prices(_)
sorted_prices(snapshots) ==
    LET priced == {row \in snapshots : row.price_value # None}
    IN  IF priced = {} THEN <<>>
        ELSE LET row == CHOOSE s \in priced :
                            \A t \in priced : s.price_value[1] <= t.price_value[1]
             IN  <<row.price_value[1]>> \o sorted_prices(priced \ {row})

median_upper(prices) == float(prices[Len(prices) \div 2 + 1])

(* statistics.median of an ascending, non-empty list *)
median(prices) ==
    LET n == Len(prices)
    IN  IF n % 2 = 1 THEN float(prices[(n + 1) \div 2])
        ELSE Rat(prices[n \div 2] + prices[n \div 2 + 1], 2)

RECURSIVE sum_shipping(_)
sum_shipping(snapshots) ==
    IF snapshots = {} THEN float(0)
    ELSE LET row == CHOOSE s \in snapshots : TRUE
         IN  Add(Rat(row.shipping_days_min[1] + row.shipping_days_max[1], 2),
                 sum_shipping(snapshots \ {row}))

avg_shipping(snapshots) ==
    LET both == {row \in snapshots :
                    row.shipping_days_min # None /\ row.shipping_days_max # None}
    IN  IF both # {} THEN Div(sum_shipping(both), float(Cardinality(both)))
        ELSE float(7)

_calc_model_raw_placeholder(model_id, msrp, listing_rows, snapshot_rows, captured_date) ==
    LET listing_ids == {row.id : row \in listing_rows}
        snapshots == {row \in snapshot_rows : row.listing_id \in listing_ids}
        prices == IF sorted_prices(snapshots) = <<>> THEN <<0>>
                  ELSE sorted_prices(snapshots)
    IN  IF listing_ids = {} THEN None
        ELSE IF snapshots = {} THEN None
        ELSE Some(ModelDayRaw(
                 model_id, captured_date, msrp, median(prices),
                 Cardinality(snapshots),
                 Cardinality({row \in snapshots : row.availability_flag}),
                 Cardinality({row \in listing_rows :
                                 row.created_at # None
                                 /\ row.created_at[1] = captured_date}),
                 avg_shipping(snapshots)))

_calc_model_raw_created_any_day(model_id, msrp, listing_rows, snapshot_rows, captured_date) ==
    LET listing_ids == {row.id : row \in listing_rows}
        snapshots == {row \in snapshot_rows : row.listing_id \in listing_ids}
        prices == sorted_prices(snapshots)
    IN  IF listing_ids = {} THEN None
        ELSE IF snapshots = {} THEN None
        ELSE IF prices = <<>> THEN None
        ELSE Some(ModelDayRaw(
                 model_id, captured_date, msrp, median(prices),
                 Cardinality(snapshots),
                 Cardinality({row \in snapshots : row.availability_flag}),
                 Cardinality(listing_rows),
                 avg_shipping(snapshots)))

_calc_model_raw(model_id, msrp, listing_rows, snapshot_rows, captured_date) ==
    LET listing_ids == {row.id : row \in listing_rows}
        snapshots == {row \in snapshot_rows : row.listing_id \in listing_ids}
        prices == sorted_prices(snapshots)
    IN  IF listing_ids = {} THEN None
        ELSE IF snapshots = {} THEN None
        ELSE IF prices = <<>> THEN None
        ELSE Some(ModelDayRaw(
                 model_id, captured_date, msrp, median(prices),
                 Cardinality(snapshots),
                 Cardinality({row \in snapshots : row.availability_flag}),
                 Cardinality({row \in listing_rows :
                                 row.created_at # None
                                 /\ row.created_at[1] = captured_date}),
                 avg_shipping(snapshots)))

-----------------------------------------------------------------------------
(* The tables *)

(* brand_models: reference data, fixed for the scoring window, in the     *)
(* order a select without "order by" returns its rows                      *)
brand_models ==
    <<[id |-> 3, brand |-> "omega", msrp |-> Some(100)],
      [id |-> 2, brand |-> "rolex", msrp |-> None],
      [id |-> 1, brand |-> "rolex", msrp |-> Some(100)]>>

ModelIds == {brand_models[i].id : i \in 1..Len(brand_models)}

Runs == {1, 2}
Dates == {1, 2}
(* <<brand, captured_date>> of each invocation of run() *)
RunInputs ==
    [r \in Runs |->
        IF r = 1 THEN {<<"rolex", 2>>}
        ELSE {<<"rolex", 2>>, <<"rolex", 1>>, <<"omega", 2>>, <<"tudor", 2>>}]

(* The models an inserted listing can belong to, by listing id *)
ListingModels(id) == IF id = 1 THEN {1} ELSE ModelIds

(* <<created_at, url>> of an inserted listing *)
ListingValues == {<<Some(1), <<"a">>>>}

(* <<price_value, availability_flag>> of an inserted snapshot *)
SnapshotValues == {<<None, TRUE>>, <<Some(150), FALSE>>}

MaxListings == 2
MaxSnapshots == 2

default_anomaly_threshold_pct == 25
max_examples == 10

SourceSize == Cardinality(market_listings) + Cardinality(listing_snapshots)

RECURSIVE order_by_id(_)
order_by_id(rows) ==
    IF rows = {} THEN <<>>
    ELSE LET first == CHOOSE r \in rows : \A t \in rows : r.id <= t.id
         IN  <<first>> \o order_by_id(rows \ {first})

ids_of(rows) == {rows[i].id : i \in 1..Len(rows)}

-----------------------------------------------------------------------------
(* services/wait_time.py: compute_model_daily_stats and the upsert *)

(* brand_models: select id, msrp where brand = brand order by id *)
select_models(brand) ==
    order_by_id({[id |-> brand_models[i].id, msrp |-> brand_models[i].msrp] :
                    i \in {j \in 1..Len(brand_models) : brand_models[j].brand = brand}})

(* market_listings: select id, model_id, created_at where model_id in ids *)
select_listings(listings, model_ids) ==
    {[id |-> l.id, model_id |-> l.model_id, created_at |-> l.created_at] :
        l \in {x \in listings : x.model_id \in model_ids}}

(* listing_snapshots: the rows of one date for the given listings *)
select_snapshots_any_date(snapshots, captured_date, listing_ids) ==
    {[listing_id |-> s.listing_id, price_value |-> s.price_value,
      availability_flag |-> s.availability_flag,
      shipping_days_min |-> s.shipping_days_min,
      shipping_days_max |-> s.shipping_days_max] :
        s \in {x \in snapshots : x.listing_id \in listing_ids}}

select_snapshots(snapshots, captured_date, listing_ids) ==
    {[listing_id |-> s.listing_id, price_value |-> s.price_value,
      availability_flag |-> s.availability_flag,
      shipping_days_min |-> s.shipping_days_min,
      shipping_days_max |-> s.shipping_days_max] :
        s \in {x \in snapshots :
                  x.captured_date = captured_date /\ x.listing_id \in listing_ids}}

(* The loop over the models: one raw row per model that has one. *)
RECURSIVE raw_rows_of(_, _, _, _)
raw_rows_of(models, listing_rows, snapshot_rows, captured_date) ==
    IF models = <<>> THEN <<>>
    ELSE LET model == Head(models)
             raw == _calc_model_raw(
                        model.id, model.msrp,
                        {row \in listing_rows : row.model_id = model.id},
                        snapshot_rows, captured_date)
         IN  (IF raw # None THEN <<raw[1]>> ELSE <<>>)
             \o raw_rows_of(Tail(models), listing_rows, snapshot_rows, captured_date)

score_fetched(models, listing_rows, snapshot_rows, captured_date) ==
    _score_rows(raw_rows_of(models, listing_rows, snapshot_rows, captured_date),
                w1_default, w2_default, w3_default)

(* compute_model_daily_stats on one consistent reading of the tables *)
compute_model_daily_stats(captured_date, brand, listings, snapshots) ==
    LET models == select_models(brand)
        listing_rows == select_listings(listings, ids_of(models))
        snapshot_rows == select_snapshots(snapshots, captured_date,
                                          {row.id : row \in listing_rows})
    IN  IF models = <<>> THEN <<>>
        ELSE IF listing_rows = {} THEN <<>>
        ELSE IF snapshot_rows = {} THEN <<>>
        ELSE score_fetched(models, listing_rows, snapshot_rows, captured_date)

same_key_never(a, b) == FALSE
same_key_model_only(a, b) == a.model_id = b.model_id
same_key_date_only(a, b) == a.captured_date = b.captured_date

(* on_conflict="model_id,captured_date" *)
same_key(a, b) == a.model_id = b.model_id /\ a.captured_date = b.captured_date

(* table.upsert(rows, on_conflict=...): each row replaces the row it       *)
(* conflicts with, or is inserted                                          *)
RECURSIVE upsert(_, _)
upsert(table, rows) ==
    IF rows = <<>> THEN table
    ELSE upsert({old \in table : ~same_key(old, Head(rows))} \cup {Head(rows)},
                Tail(rows))

written_row_by_row(table, rows) ==
    {upsert(table, SubSeq(rows, 1, n)) : n \in 0..Len(rows)}

(* What a failed upsert request can leave: the one statement ran or not. *)
written_on_failure(table, rows) == {table, upsert(table, rows)}

-----------------------------------------------------------------------------
(* ingest/validate.py *)

RECURSIVE sorted(_)
sorted(ids) ==
    IF ids = <<>> THEN <<>>
    ELSE LET i == CHOOSE i \in 1..Len(ids) : \A j \in 1..Len(ids) : ids[i] <= ids[j]
         IN  <<ids[i]>> \o sorted(SubSeq(ids, 1, i - 1) \o SubSeq(ids, i + 1, Len(ids)))

(* list.sort(key=..., reverse=True): stable, largest key first *)
RECURSIVE sort_desc(_, _)
sort_desc(items, key) ==
    IF items = <<>> THEN <<>>
    ELSE LET i == CHOOSE i \in 1..Len(items) :
                      /\ \A j \in 1..Len(items) : items[j][key] <= items[i][key]
                      /\ \A j \in 1..(i - 1) : items[j][key] < items[i][key]
         IN  <<items[i]>>
             \o sort_desc(SubSeq(items, 1, i - 1) \o SubSeq(items, i + 1, Len(items)), key)

first_n(items, n) == SubSeq(items, 1, IF Len(items) < n THEN Len(items) ELSE n)

(* The orders in which a select without "order by" can return the rows. *)
RECURSIVE orders(_)
orders(S) ==
    IF S = {} THEN {<<>>}
    ELSE UNION {{<<x>> \o rest : rest \in orders(S \ {x})} : x \in S}

_get_brand_model_ids(brand) ==
    LET rows == SelectSeq(brand_models, LAMBDA b : b.brand = brand)
    IN  [i \in 1..Len(rows) |-> rows[i].id]

(* str.strip() on a string held as a tuple of characters *)
RECURSIVE lstrip(_)
lstrip(s) == IF s # <<>> /\ Head(s) = " " THEN lstrip(Tail(s)) ELSE s

RECURSIVE rstrip(_)
rstrip(s) ==
    IF s # <<>> /\ s[Len(s)] = " " THEN rstrip(SubSeq(s, 1, Len(s) - 1)) ELSE s

strip_nothing(s) == s

strip(s) == rstrip(lstrip(s))

(* The urls of the response, in listing id order, stripped, empty ones dropped *)
stripped_urls(listings, model_ids) ==
    LET rows == order_by_id({l \in listings : l.model_id \in model_ids})
    IN  SelectSeq([i \in 1..Len(rows) |-> strip(rows[i].url)], LAMBDA u : u # <<>>)

occurrences(urls, url) == Cardinality({i \in 1..Len(urls) : urls[i] = url})

(* The keys of the dict seen, in insertion order, with a count above one *)
RECURSIVE duplicates_of(_, _)
duplicates_of(urls, all) ==
    IF urls = <<>> THEN <<>>
    ELSE LET url == Head(urls)
             rest == SelectSeq(Tail(urls), LAMBDA u : u # url)
         IN  (IF occurrences(all, url) > 1
              THEN <<[url |-> url, count |-> occurrences(all, url)]>> ELSE <<>>)
             \o duplicates_of(rest, all)

_check_duplicate_urls(model_ids, listings) ==
    IF model_ids = <<>> THEN <<0, <<>>>>
    ELSE LET urls == stripped_urls(listings, {model_ids[i] : i \in 1..Len(model_ids)})
             duplicates == sort_desc(duplicates_of(urls, urls), "count")
         IN  <<Len(duplicates), first_n(duplicates, max_examples)>>

_check_missing_stats_any_date(model_ids, captured_date, stats) ==
    IF model_ids = <<>> THEN <<0, <<>>>>
    ELSE LET present == {row.model_id :
                            row \in {s \in stats :
                                        \E i \in 1..Len(model_ids) :
                                            model_ids[i] = s.model_id}}
             missing == sorted(SelectSeq(model_ids, LAMBDA mid : mid \notin present))
         IN  <<Len(missing), missing>>

_check_missing_stats_unsorted(model_ids, captured_date, stats) ==
    IF model_ids = <<>> THEN <<0, <<>>>>
    ELSE LET present == {row.model_id :
                            row \in {s \in stats :
                                        /\ s.captured_date = captured_date
                                        /\ \E i \in 1..Len(model_ids) :
                                              model_ids[i] = s.model_id}}
             missing == SelectSeq(model_ids, LAMBDA mid : mid \notin present)
         IN  <<Len(missing), missing>>

_check_missing_stats(model_ids, captured_date, stats) ==
    IF model_ids = <<>> THEN <<0, <<>>>>
    ELSE LET present == {row.model_id :
                            row \in {s \in stats :
                                        /\ s.captured_date = captured_date
                                        /\ \E i \in 1..Len(model_ids) :
                                              model_ids[i] = s.model_id}}
             missing == sorted(SelectSeq(model_ids, LAMBDA mid : mid \notin present))
         IN  <<Len(missing), missing>>

(* market_listings: select id where model_id in ids *)
anomaly_listing_ids(listings, model_ids) ==
    {l.id : l \in {x \in listings : \E i \in 1..Len(model_ids) : model_ids[i] = x.model_id}}

(* listing_snapshots: the priced rows of the two dates for the given listings *)
price_on(snapshots, listing_ids, listing_id, captured_date) ==
    LET rows == {s \in snapshots :
                    /\ s.listing_id \in listing_ids
                    /\ s.listing_id = listing_id
                    /\ s.captured_date = captured_date
                    /\ s.price_value # None}
    IN  IF rows = {} THEN None ELSE (CHOOSE s \in rows : TRUE).price_value

(* abs((curr - prev) / prev) * 100.0, in binary64 *)
pct_jump(curr, prev) == fmul(fdiv(Abs(curr - prev), prev), 100)

(* pct_jump > threshold_pct *)
exceeds(jump, threshold_pct) == fgt(jump, threshold_pct)

(* The loop over curr_prices, in listing id order *)
RECURSIVE anomalies_of(_, _, _, _, _)
anomalies_of(ids, snapshots, listing_ids, captured_date, threshold_pct) ==
    IF ids = <<>> THEN <<>>
    ELSE LET listing_id == Head(ids)
             curr == price_on(snapshots, listing_ids, listing_id, captured_date)
             prev == price_on(snapshots, listing_ids, listing_id, captured_date - 1)
             rest == anomalies_of(Tail(ids), snapshots, listing_ids, captured_date,
                                  threshold_pct)
         IN  IF curr = None \/ prev = None THEN rest
             ELSE IF prev[1] <= 0 THEN rest
             ELSE IF exceeds(pct_jump(curr[1], prev[1]), threshold_pct)
                  THEN <<[listing_id |-> listing_id,
                          prev_price |-> round(float(prev[1]), 2),
                          curr_price |-> round(float(curr[1]), 2),
                          pct_jump |-> fround2(pct_jump(curr[1], prev[1]))]>> \o rest
             ELSE rest

RECURSIVE ascending(_)
ascending(ids) ==
    IF ids = {} THEN <<>>
    ELSE LET low == CHOOSE i \in ids : \A j \in ids : i <= j
         IN  <<low>> \o ascending(ids \ {low})

reversed(items) == [i \in 1..Len(items) |-> items[Len(items) + 1 - i]]

(* The orders in which the snapshots select, which has no "order by", is   *)
(* taken to return the rows of the listings: by id, either way             *)
response_orders(listing_ids) ==
    {ascending(listing_ids), reversed(ascending(listing_ids))}

(* The part of _check_price_anomalies after its two selects; order is the  *)
(* order of curr_prices                                                    *)
price_anomalies(order, snapshots, captured_date, threshold_pct) ==
    LET listing_ids == {order[i] : i \in 1..Len(order)}
        anomalies ==
            sort_desc(anomalies_of(order, snapshots, listing_ids, captured_date,
                                   threshold_pct),
                      "pct_jump")
    IN  <<Len(anomalies), first_n(anomalies, max_examples)>>

_check_price_anomalies(model_ids, captured_date, threshold_pct, listings, snapshots, order) ==
    IF model_ids = <<>> THEN <<0, <<>>>>
    ELSE IF anomaly_listing_ids(listings, model_ids) = {} THEN <<0, <<>>>>
    ELSE price_anomalies(order, snapshots, captured_date, threshold_pct)

ValidationReport(captured_date, brand, anomaly_threshold_pct, anomalies, missing, duplicates) ==
    [captured_date |-> captured_date,
     brand |-> brand,
     anomaly_threshold_pct |-> anomaly_threshold_pct,
     anomaly_count |-> anomalies[1],
     anomaly_examples |-> anomalies[2],
     missing_stats_count |-> missing[1],
     missing_stats_model_ids |-> missing[2],
     duplicate_url_count |-> duplicates[1],
     duplicate_url_examples |-> duplicates[2]]

-----------------------------------------------------------------------------
(* ingest/run_ingest.py: run(brand, captured_date, anomaly_threshold_pct),  *)
(* one action per request it sends and one for the local computation       *)

NewRun(brand, captured_date, anomaly_threshold_pct) ==
    [pc |-> "fetch_models",
     brand |-> brand,
     captured_date |-> captured_date,
     anomaly_threshold_pct |-> anomaly_threshold_pct,
     models |-> <<>>,
     listing_rows |-> {},
     snapshot_rows |-> {},
     rows |-> <<>>,
     upserted |-> 0,
     model_ids |-> <<>>,
     duplicates |-> <<0, <<>>>>,
     missing |-> <<0, <<>>>>,
     listing_ids |-> {},
     validation |-> None]

NoRun == [NewRun("", 0, 0) EXCEPT !.pc = "none"]

(* run() returns <<upserted, validation>>: its locals are gone. *)
Returned(r, anomalies) ==
    [run EXCEPT
        ![r] = [NewRun(run[r].brand, run[r].captured_date, run[r].anomaly_threshold_pct)
                EXCEPT !.pc = "done",
                       !.upserted = run[r].upserted,
                       !.validation =
                           Some(ValidationReport(
                                    run[r].captured_date, run[r].brand,
                                    run[r].anomaly_threshold_pct, anomalies,
                                    run[r].missing, run[r].duplicates))]]

(* The exception leaves run(): its locals are gone. *)
Raised(r) ==
    [run EXCEPT
        ![r] = [NewRun(run[r].brand, run[r].captured_date, run[r].anomaly_threshold_pct)
                EXCEPT !.pc = "failed"]]

FetchModels(r) ==
    /\ run[r].pc = "fetch_models"
    /\ LET models == select_models(run[r].brand)
       IN  run' = [run EXCEPT
                      ![r].models = models,
                      ![r].pc = IF models = <<>> THEN "upsert" ELSE "fetch_listings"]
    /\ source_seen' = [source_seen EXCEPT ![r] = SourceSize]
    /\ UNCHANGED <<store_vars, call_vars>>

FetchListings(r) ==
    /\ run[r].pc = "fetch_listings"
    /\ LET listing_rows == select_listings(market_listings, ids_of(run[r].models))
       IN  run' = IF listing_rows = {}
                  THEN [run EXCEPT ![r].models = <<>>, ![r].pc = "upsert"]
                  ELSE [run EXCEPT ![r].listing_rows = listing_rows,
                                   ![r].pc = "fetch_snapshots"]
    /\ UNCHANGED <<store_vars, source_seen, call_vars>>

FetchSnapshots(r) ==
    /\ run[r].pc = "fetch_snapshots"
    /\ LET snapshot_rows ==
               select_snapshots(listing_snapshots, run[r].captured_date,
                                {row.id : row \in run[r].listing_rows})
       IN  run' = IF snapshot_rows = {}
                  THEN [run EXCEPT ![r].models = <<>>, ![r].listing_rows = {},
                                   ![r].pc = "upsert"]
                  ELSE [run EXCEPT ![r].snapshot_rows = snapshot_rows,
                                   ![r].pc = "compute"]
    /\ UNCHANGED <<store_vars, source_seen, call_vars>>

Compute(r) ==
    /\ run[r].pc = "compute"
    /\ run' = [run EXCEPT
                  ![r].rows = score_fetched(run[r].models, run[r].listing_rows,
                                            run[r].snapshot_rows, run[r].captured_date),
                  ![r].models = <<>>,
                  ![r].listing_rows = {},
                  ![r].snapshot_rows = {},
                  ![r].pc = "upsert"]
    /\ UNCHANGED <<store_vars, source_seen, call_vars>>

(* upsert_model_daily_stats: no request for an empty batch *)
Upsert(r) ==
    /\ run[r].pc = "upsert"
    /\ model_daily_stats' =
           IF run[r].rows = <<>> THEN model_daily_stats
           ELSE upsert(model_daily_stats, run[r].rows)
    /\ run' = [run EXCEPT ![r].upserted = Len(run[r].rows),
                          ![r].pc = "get_brand_model_ids"]
    /\ UNCHANGED <<market_listings, listing_snapshots, source_seen, call_vars>>

(* The upsert request raises *)
UpsertFails(r) ==
    /\ run[r].pc = "upsert"
    /\ run[r].rows # <<>>
    /\ model_daily_stats' \in written_on_failure(model_daily_stats, run[r].rows)
    /\ run' = Raised(r)
    /\ UNCHANGED <<market_listings, listing_snapshots, source_seen, call_vars>>

selected_and_cleared(table) == {}

(* What a table holds after a select(...).execute() of validate.py *)
selected(table) == table

GetBrandModelIds(r) ==
    /\ run[r].pc = "get_brand_model_ids"
    /\ run' = [run EXCEPT ![r].model_ids = _get_brand_model_ids(run[r].brand),
                          ![r].pc = "check_duplicate_urls"]
    /\ UNCHANGED <<store_vars, source_seen, call_vars>>

CheckDuplicateUrls(r) ==
    /\ run[r].pc = "check_duplicate_urls"
    /\ run' = [run EXCEPT
                  ![r].duplicates = _check_duplicate_urls(run[r].model_ids, market_listings),
                  ![r].pc = "check_missing_stats"]
    /\ market_listings' = selected(market_listings)
    /\ UNCHANGED <<listing_snapshots, model_daily_stats, source_seen, call_vars>>

CheckMissingStats(r) ==
    /\ run[r].pc = "check_missing_stats"
    /\ run' = [run EXCEPT
                  ![r].missing = _check_missing_stats(run[r].model_ids,
                                                      run[r].captured_date,
                                                      model_daily_stats),
                  ![r].pc = "anomaly_listings"]
    /\ model_daily_stats' = selected(model_daily_stats)
    /\ UNCHANGED <<market_listings, listing_snapshots, source_seen, call_vars>>

(* _check_price_anomalies up to its select of the listing ids *)
AnomalyListings(r) ==
    /\ run[r].pc = "anomaly_listings"
    /\ LET listing_ids == anomaly_listing_ids(market_listings, run[r].model_ids)
       IN  run' = IF run[r].model_ids = <<>> \/ listing_ids = {}
                  THEN Returned(r, <<0, <<>>>>)
                  ELSE [run EXCEPT ![r].listing_ids = listing_ids,
                                   ![r].pc = "anomaly_snapshots"]
    /\ market_listings' = selected(market_listings)
    /\ UNCHANGED <<listing_snapshots, model_daily_stats, source_seen, call_vars>>

(* the rest of _check_price_anomalies, and the report run() returns *)
AnomalySnapshots(r) ==
    /\ run[r].pc = "anomaly_snapshots"
    /\ \E order \in response_orders(run[r].listing_ids) :
          run' = Returned(r, price_anomalies(order, listing_snapshots,
                                             run[r].captured_date,
                                             run[r].anomaly_threshold_pct))
    /\ listing_snapshots' = selected(listing_snapshots)
    /\ UNCHANGED <<market_listings, model_daily_stats, source_seen, call_vars>>

(* A select raises (or the client cannot be built): run() propagates it. *)
sends_request(r) ==
    \/ run[r].pc \in {"fetch_models", "fetch_listings", "fetch_snapshots",
                      "get_brand_model_ids", "anomaly_snapshots"}
    \/ /\ run[r].pc \in {"check_duplicate_urls", "check_missing_stats",
                         "anomaly_listings"}
       /\ run[r].model_ids # <<>>

Fail(r) ==
    /\ sends_request(r)
    /\ run' = Raised(r)
    /\ UNCHANGED <<store_vars, source_seen, call_vars>>

-----------------------------------------------------------------------------
(* The scraper: the source tables only grow *)

InsertListing ==
    /\ Cardinality(market_listings) < MaxListings
    /\ \E model_id \in ListingModels(Cardinality(market_listings) + 1),
          v \in ListingValues :
          market_listings' = market_listings \cup
              {[id |-> Cardinality(market_listings) + 1, model_id |-> model_id,
                created_at |-> v[1], url |-> v[2]]}
    /\ UNCHANGED <<listing_snapshots, model_daily_stats, run, source_seen, call_vars>>

InsertSnapshot ==
    /\ Cardinality(listing_snapshots) < MaxSnapshots
    /\ \E l \in market_listings, day \in Dates, v \in SnapshotValues :
          /\ \A s \in listing_snapshots :
                ~(s.listing_id = l.id /\ s.captured_date = day)
          /\ listing_snapshots' = listing_snapshots \cup
                {[listing_id |-> l.id, captured_date |-> day, price_value |-> v[1],
                  availability_flag |-> v[2],
                  shipping_days_min |-> None, shipping_days_max |-> None]}
    /\ UNCHANGED <<market_listings, model_daily_stats, run, source_seen, call_vars>>

ScoreIdle ==
    /\ sc_pc = "none"
    /\ sc_rows = <<>>
    /\ sc_weights = <<w1_default, w2_default, w3_default>>
    /\ sc_scored = <<>>

CheckIdle ==
    /\ va_pc = "none"
    /\ va_args = <<>>
    /\ va_result = <<>>

PipelineIdle ==
    /\ market_listings = {}
    /\ listing_snapshots = {}
    /\ model_daily_stats = {}
    /\ run = [r \in Runs |-> NoRun]
    /\ source_seen = [r \in Runs |-> 0]

Init ==
    /\ market_listings = {}
    /\ listing_snapshots = {}
    /\ model_daily_stats = {}
    /\ \E inputs \in [Runs -> UNION {RunInputs[r] : r \in Runs}] :
          /\ \A r \in Runs : inputs[r] \in RunInputs[r]
          /\ run = [r \in Runs |->
                    NewRun(inputs[r][1], inputs[r][2], default_anomaly_threshold_pct)]
    /\ source_seen = [r \in Runs |-> 0]
    /\ ScoreIdle
    /\ CheckIdle

Next ==
    \/ InsertListing
    \/ InsertSnapshot
    \/ \E r \in Runs :
          \/ FetchModels(r)
          \/ FetchListings(r)
          \/ FetchSnapshots(r)
          \/ Compute(r)
          \/ Upsert(r)
          \/ UpsertFails(r)
          \/ GetBrandModelIds(r)
          \/ CheckDuplicateUrls(r)
          \/ CheckMissingStats(r)
          \/ AnomalyListings(r)
          \/ AnomalySnapshots(r)
          \/ Fail(r)

Spec == Init /\ [][Next]_vars

-----------------------------------------------------------------------------
(* Batches handed to _score_rows *)

MaxBatch == 3

(* <<listings_count, available_count, created_today>> of a raw row *)
RawCounts == {<<1, 0, 0>>, <<1, 1, 0>>, <<1, 1, 2>>, <<2, 1, 0>>}

(* <<median_price, msrp>> of a raw row *)
RawPrices == {<<100, None>>, <<100, Some(100)>>, <<125, Some(100)>>,
              <<250, Some(100)>>}

RawBatches ==
    UNION {[1..n -> RawCounts \X RawPrices] : n \in 0..MaxBatch}

BatchOf(choice) ==
    [i \in 1..Len(choice) |->
        ModelDayRaw(i, 1, choice[i][2][2], float(choice[i][2][1]),
                    choice[i][1][1], choice[i][1][2], choice[i][1][3], float(7))]

InitScore ==
    /\ PipelineIdle
    /\ CheckIdle
    /\ sc_pc = "input"
    /\ \E choice \in RawBatches : sc_rows = BatchOf(choice)
    /\ sc_weights = <<w1_default, w2_default, w3_default>>
    /\ sc_scored = <<>>

Score ==
    /\ sc_pc = "input"
    /\ sc_scored' = _score_rows(sc_rows, sc_weights[1], sc_weights[2], sc_weights[3])
    /\ sc_pc' = "scored"
    /\ UNCHANGED <<sc_rows, sc_weights, pipeline_vars, check_vars>>

NextScore == Score

SpecScore == InitScore /\ [][NextScore]_vars

-----------------------------------------------------------------------------
(* Degenerate batches *)

AllEqual(values) == \A i, j \in 1..Len(values) : values[i] = values[j]

Degenerate(rows) ==
    /\ Len(rows) >= 1
    /\ AllEqual(premiums(rows))
    /\ AllEqual(availability(rows))
    /\ AllEqual(velocities(rows))

AllZero(values) == \A i \in 1..Len(values) : values[i] = float(0)

\* C1 as stated: a degenerate batch (one item, or all items with the same
\* premium, availability_ratio and velocity) normalizes every feature to 0.0
\* and every output row has wait_time_index 0.0 and the band "0-6 months".
C1_DegenerateIsZero ==
    (sc_pc = "scored" /\ Degenerate(sc_rows)) =>
        /\ AllZero(_normalize(premiums(sc_rows)))
        /\ AllZero(_normalize(availability(sc_rows)))
        /\ AllZero(_normalize(velocities(sc_rows)))
        /\ \A i \in 1..Len(sc_scored) :
              /\ sc_scored[i].wait_time_index = 0
              /\ sc_scored[i].wait_band = "0-6 months"

\* C1 amended: a degenerate batch normalizes every feature to 0.0, and every
\* output row has wait_time_index 0.3000 (the availability term
\* w2 * (1 - 0.0) remains) and the band "6-18 months".
C1_DegenerateIsW2 ==
    (sc_pc = "scored" /\ Degenerate(sc_rows)) =>
        /\ AllZero(_normalize(premiums(sc_rows)))
        /\ AllZero(_normalize(availability(sc_rows)))
        /\ AllZero(_normalize(velocities(sc_rows)))
        /\ Len(sc_scored) = Len(sc_rows)
        /\ \A i \in 1..Len(sc_scored) :
              /\ sc_scored[i].wait_time_index = 3000
              /\ sc_scored[i].wait_band = "6-18 months"

C1_Witness ==
    /\ sc_pc = "scored"
    /\ Len(sc_rows) = MaxBatch
    /\ Degenerate(sc_rows)
    /\ sc_scored[MaxBatch].wait_time_index = 3000

-----------------------------------------------------------------------------
(* Monotonicity *)

Scarcer(rows, a, b) ==
    /\ Lt(premiums(rows)[b], premiums(rows)[a])
    /\ Lt(rows[a].availability_ratio, rows[b].availability_ratio)

\* C2 as stated: in every batch, an item with strictly higher premium and
\* strictly lower availability_ratio than another has a strictly greater
\* wait_time_index.
C2_Monotone ==
    sc_pc = "scored" =>
        \A a, b \in 1..Len(sc_rows) :
            (/\ sc_rows[a].premium_over_msrp # None
             /\ sc_rows[b].premium_over_msrp # None
             /\ Scarcer(sc_rows, a, b))
            => sc_scored[a].wait_time_index > sc_scored[b].wait_time_index

\* C2 amended: in every two-item batch, an item with strictly higher premium
\* (a missing premium counting as 0.0) and strictly lower availability_ratio
\* than the other has a strictly greater wait_time_index: at least 0.75
\* against at most 0.25.
C2_MonotoneInPairs ==
    (sc_pc = "scored" /\ Len(sc_rows) = 2) =>
        \A a, b \in 1..2 :
            Scarcer(sc_rows, a, b) =>
                /\ sc_scored[a].wait_time_index > sc_scored[b].wait_time_index
                /\ sc_scored[a].wait_time_index >= 7500
                /\ sc_scored[b].wait_time_index <= 2500

C2_Witness ==
    /\ sc_pc = "scored"
    /\ Len(sc_rows) = 2
    /\ Scarcer(sc_rows, 1, 2)
    /\ Lt(velocities(sc_rows)[1], velocities(sc_rows)[2])
    /\ sc_scored[1].wait_time_index = 7500
    /\ sc_scored[2].wait_time_index = 2500

-----------------------------------------------------------------------------
(* The pipeline over the append-only source *)

BeforeUpsert == {"fetch_models", "fetch_listings", "fetch_snapshots", "compute"}

AfterUpsert ==
    {"get_brand_model_ids", "check_duplicate_urls", "check_missing_stats",
     "anomaly_listings", "anomaly_snapshots", "done"}

brand_ids(brand) ==
    {brand_models[i].id : i \in {j \in 1..Len(brand_models) : brand_models[j].brand = brand}}

RowsOf(table, brand, captured_date) ==
    {row \in table : row.captured_date = captured_date /\ row.model_id \in brand_ids(brand)}

AsSet(rows) == {rows[i] : i \in 1..Len(rows)}

HasPricedSnapshot(model_id, captured_date) ==
    \E l \in market_listings, s \in listing_snapshots :
        /\ l.model_id = model_id
        /\ s.listing_id = l.id
        /\ s.captured_date = captured_date
        /\ s.price_value # None

HasUnpricedSnapshot(model_id, captured_date) ==
    \E l \in market_listings, s \in listing_snapshots :
        /\ l.model_id = model_id
        /\ s.listing_id = l.id
        /\ s.captured_date = captured_date
        /\ s.price_value = None

SameKey(r1, r2) ==
    /\ run[r1].brand = run[r2].brand
    /\ run[r1].captured_date = run[r2].captured_date

(* Nothing was inserted into the source since run r started. *)
SourceUnchangedSince(r) == run[r].pc # "fetch_models" /\ source_seen[r] = SourceSize

SingleRunAlone(r) ==
    AsSet(compute_model_daily_stats(run[r].captured_date, run[r].brand,
                                    market_listings, listing_snapshots))

\* C3: every persisted model_daily_stats row keyed (model, date) has at least
\* one snapshot with a non-null price on that date belonging to a listing of
\* that model; a model without such a snapshot has no row for that date.
C3_RowsHavePricedSnapshot ==
    /\ \A row \in model_daily_stats :
          HasPricedSnapshot(row.model_id, row.captured_date)
    /\ \A model_id \in ModelIds, captured_date \in Dates :
          ~HasPricedSnapshot(model_id, captured_date) =>
              \A row \in model_daily_stats :
                  ~(row.model_id = model_id /\ row.captured_date = captured_date)

C3_Witness ==
    \E r \in Runs, row \in model_daily_stats, model_id \in ModelIds :
        /\ run[r].pc \in AfterUpsert
        /\ run[r].upserted = 1
        /\ row.captured_date = run[r].captured_date
        /\ model_id \in brand_ids(run[r].brand)
        /\ HasUnpricedSnapshot(model_id, run[r].captured_date)
        /\ ~HasPricedSnapshot(model_id, run[r].captured_date)

OneRowPerKey ==
    \A a, b \in model_daily_stats :
        (a.model_id = b.model_id /\ a.captured_date = b.captured_date) => a = b

(* Run r is about to persist after another run of the same key did, the     *)
(* source being what both of them read.                                     *)
SecondRun(r) ==
    /\ run[r].pc = "upsert"
    /\ SourceUnchangedSince(r)
    /\ \E r1 \in Runs \ {r} :
          /\ SameKey(r1, r)
          /\ run[r1].pc \in AfterUpsert
          /\ SourceUnchangedSince(r1)

\* C4: model_daily_stats holds one row per (model, date) key, and when the
\* pipeline runs a second time for the same (brand, date) against unchanged
\* source data, the rows after the second persist are those after the first.
C4_Idempotent ==
    /\ []OneRowPerKey
    /\ [][\A r \in Runs :
             (SecondRun(r) /\ run'[r].pc \in AfterUpsert) =>
                 /\ model_daily_stats' = model_daily_stats
                 /\ run'[r].upserted = Cardinality(RowsOf(model_daily_stats',
                                                          run[r].brand,
                                                          run[r].captured_date))]_vars

C4_Witness ==
    /\ run[1].pc = "done"
    /\ run[2].pc = "done"
    /\ SameKey(1, 2)
    /\ SourceUnchangedSince(1)
    /\ SourceUnchangedSince(2)
    /\ run[1].upserted = 2
    /\ run[2].upserted = 2
    /\ Cardinality(model_daily_stats) = 2

\* C5: a failure of any step of run() ends the run for good (no retry, no
\* result); a step of run() other than the persist step leaves
\* model_daily_stats unchanged, and the persist step, failing or not, leaves
\* either the rows that were there or the complete computed batch.
C5_NoPartialPersistence ==
    [][\A r \in Runs :
          /\ run[r].pc = "failed" => run'[r] = run[r]
          /\ (run'[r].pc = "failed" /\ run[r].pc # "failed") =>
                 /\ run'[r].validation = None
                 /\ run'[r].upserted = 0
                 /\ run[r].pc \in BeforeUpsert =>
                        model_daily_stats' = model_daily_stats
          /\ (run'[r] # run[r] /\ run[r].pc # "upsert") =>
                 model_daily_stats' = model_daily_stats
          /\ (run'[r] # run[r] /\ run[r].pc = "upsert") =>
                 \/ model_daily_stats' = model_daily_stats
                 \/ /\ AsSet(run[r].rows) \subseteq model_daily_stats'
                    /\ model_daily_stats' = upsert(model_daily_stats, run[r].rows)]_vars

C5_Witness ==
    /\ run[1].pc = "failed"
    /\ run[2].pc = "fetch_models"
    /\ Cardinality(RowsOf(model_daily_stats, run[1].brand, run[1].captured_date)) = 2

(* Both runs of one key are past their persist step, on the source both read. *)
BothPersisted(r1, r2) ==
    /\ r1 # r2
    /\ SameKey(r1, r2)
    /\ run[r1].pc \in AfterUpsert
    /\ run[r2].pc \in AfterUpsert
    /\ SourceUnchangedSince(r1)
    /\ SourceUnchangedSince(r2)

\* C6: once two runs of the same (brand, date) have both persisted, the source
\* unchanged since they started, the persisted rows of that key are those a
\* single run computes, whatever the interleaving; and the only step of a run
\* that touches shared state is its persist step.
C6_LastWriteWins ==
    /\ [](\A r1, r2 \in Runs :
             BothPersisted(r1, r2) =>
                 RowsOf(model_daily_stats, run[r1].brand, run[r1].captured_date)
                     = SingleRunAlone(r1))
    /\ [][\A r \in Runs :
             (run'[r] # run[r] /\ run[r].pc # "upsert") =>
                 /\ UNCHANGED store_vars
                 /\ \A r1 \in Runs \ {r} : run'[r1] = run[r1]]_vars

C6_Witness ==
    /\ BothPersisted(1, 2)
    /\ run[1].pc = "check_missing_stats"
    /\ run[2].pc = "get_brand_model_ids"
    /\ Cardinality(SingleRunAlone(1)) = 2
    /\ RowsOf(model_daily_stats, run[1].brand, run[1].captured_date) = SingleRunAlone(1)

InKey(row, r) ==
    /\ row.captured_date = run[r].captured_date
    /\ row.model_id \in brand_ids(run[r].brand)

(* The part of the source that belongs to the key of run r *)
own_listings(r) == {l \in market_listings : l.model_id \in brand_ids(run[r].brand)}

own_snapshots(r) ==
    {s \in listing_snapshots :
        /\ s.captured_date = run[r].captured_date
        /\ \E l \in own_listings(r) : l.id = s.listing_id}

\* C7: a step of a run for (brand, date) leaves unchanged every
\* model_daily_stats row of another date or of a model of another brand; the
\* batch it computes is the one computed from the listings of its brand and
\* their snapshots of its date alone; so a run that persisted, next to a run
\* of another key at any point of its course, leaves the rows of a run alone.
C7_Isolation ==
    /\ [][\A r \in Runs :
             run'[r] # run[r] =>
                 {row \in model_daily_stats' : ~InKey(row, r)}
                     = {row \in model_daily_stats : ~InKey(row, r)}]_vars
    /\ [](\A r \in Runs :
             (run[r].pc = "upsert" /\ SourceUnchangedSince(r)) =>
                 run[r].rows = compute_model_daily_stats(
                                   run[r].captured_date, run[r].brand,
                                   own_listings(r), own_snapshots(r)))
    /\ [](\A r1, r2 \in Runs :
             (/\ r1 # r2
              /\ ~SameKey(r1, r2)
              /\ run[r1].pc \in AfterUpsert
              /\ SourceUnchangedSince(r1)) =>
                 RowsOf(model_daily_stats, run[r1].brand, run[r1].captured_date)
                     = SingleRunAlone(r1))

C7_Witness ==
    /\ ~SameKey(1, 2)
    /\ run[1].pc \in AfterUpsert
    /\ run[2].pc \in AfterUpsert
    /\ SourceUnchangedSince(1)
    /\ run[1].upserted = 1
    /\ run[2].upserted = 1
    /\ Cardinality(model_daily_stats) = 2
    /\ Cardinality(listing_snapshots) = 2

(* A model with listings but no priced snapshot on the date *)
Gap(model_id, captured_date) ==
    /\ \E l \in market_listings : l.model_id = model_id
    /\ ~HasPricedSnapshot(model_id, captured_date)

\* C8: when run() has returned, every model of its brand that has listings but
\* no priced snapshot on its date has no model_daily_stats row for that date
\* and is in missing_stats_model_ids of the report the run returned; the
\* computation of the batch does not fail.
C8_GapIsReported ==
    /\ [](\A r \in Runs :
             run[r].pc = "done" =>
                 \A model_id \in brand_ids(run[r].brand) :
                     Gap(model_id, run[r].captured_date) =>
                         /\ \A row \in model_daily_stats :
                               ~(/\ row.model_id = model_id
                                 /\ row.captured_date = run[r].captured_date)
                         /\ \E i \in 1..run[r].validation[1].missing_stats_count :
                               run[r].validation[1].missing_stats_model_ids[i] = model_id)
    /\ [][\A r \in Runs :
             (run[r].pc = "compute" /\ run'[r] # run[r]) =>
                 run'[r].pc = "upsert"]_vars

C8_Witness ==
    \E r \in Runs :
        /\ run[r].pc = "done"
        /\ run[r].upserted = 1
        /\ Gap(2, run[r].captured_date)
        /\ HasUnpricedSnapshot(2, run[r].captured_date)
        /\ run[r].validation[1].missing_stats_model_ids = <<2>>

-----------------------------------------------------------------------------
(* Calls of _check_missing_stats *)

(* The row the pipeline writes for a model with one priced snapshot *)
stat_row(model_id, captured_date) ==
    _score_rows(<<ModelDayRaw(model_id, captured_date, None, float(150),
                              1, 0, 0, float(7))>>,
                w1_default, w2_default, w3_default)[1]

StatRows == {stat_row(model_id, day) : model_id \in ModelIds, day \in Dates}

(* The ids of any selection of models, in any order of the response *)
ModelIdLists == UNION {orders(ids) : ids \in SUBSET ModelIds}

InitMissing ==
    /\ market_listings = {}
    /\ listing_snapshots = {}
    /\ model_daily_stats \in SUBSET StatRows
    /\ run = [r \in Runs |-> NoRun]
    /\ source_seen = [r \in Runs |-> 0]
    /\ ScoreIdle
    /\ va_pc = "input"
    /\ \E model_ids \in ModelIdLists, captured_date \in Dates :
          va_args = [model_ids |-> model_ids, captured_date |-> captured_date]
    /\ va_result = <<>>

CallCheckMissingStats ==
    /\ va_pc = "input"
    /\ va_result' = _check_missing_stats(va_args.model_ids, va_args.captured_date,
                                         model_daily_stats)
    /\ va_pc' = "missing_checked"
    /\ UNCHANGED <<va_args, pipeline_vars, sc_pc, sc_rows, sc_weights, sc_scored>>

NextMissing == CallCheckMissingStats

SpecMissing == InitMissing /\ [][NextMissing]_vars

HasRow(model_id, captured_date) ==
    \E row \in model_daily_stats :
        row.model_id = model_id /\ row.captured_date = captured_date

\* C9: missing_stats_model_ids is exactly the ids of the given models that
\* have no model_daily_stats row for the target date, in ascending order, and
\* missing_stats_count is the length of that list; both are 0 and empty for
\* an empty group.
C9_MissingIsSortedComplement ==
    va_pc = "missing_checked" =>
        LET missing == va_result[2]
        IN  /\ \A i, j \in 1..Len(missing) : i < j => missing[i] < missing[j]
            /\ AsSet(missing) =
                   {id \in AsSet(va_args.model_ids) :
                       ~HasRow(id, va_args.captured_date)}
            /\ va_result[1] = Len(missing)
            /\ va_args.model_ids = <<>> => va_result = <<0, <<>>>>

C9_Witness ==
    /\ va_pc = "missing_checked"
    /\ va_args.model_ids = <<3, 2, 1>>
    /\ HasRow(2, va_args.captured_date)
    /\ HasRow(1, 3 - va_args.captured_date)
    /\ va_result = <<2, <<1, 3>>>>

-----------------------------------------------------------------------------
(* Calls of _check_price_anomalies *)

MaxPairs == 3

(* <<price the day before, price on the date>> of a listing *)
PricePairs ==
    {<<None, Some(130)>>, <<Some(100), None>>, <<Some(0), Some(50)>>,
     <<Some(100), Some(130)>>, <<Some(100), Some(120)>>, <<Some(100), Some(125)>>,
     <<Some(25), Some(32)>>, <<Some(100), Some(70)>>}

(* How many listings carry each chosen pair *)
Copies == {1, 4}

Thresholds == {default_anomaly_threshold_pct, 28}

PairChoices == UNION {[1..n -> PricePairs] : n \in 0..MaxPairs}

(* The listings of model 1, carrying the chosen pairs in turn, and one     *)
(* listing of a model of another brand whose price doubled                 *)
pair_of(choice, copies, id) ==
    IF id > Len(choice) * copies THEN <<Some(100), Some(200)>>
    ELSE choice[((id - 1) % Len(choice)) + 1]

listings_of(choice, copies) ==
    {[id |-> id, model_id |-> IF id > Len(choice) * copies THEN 3 ELSE 1,
      created_at |-> None, url |-> <<"a">>] : id \in 1..(Len(choice) * copies + 1)}

snapshots_of(choice, copies, captured_date) ==
    {[listing_id |-> id, captured_date |-> captured_date - 2 + day,
      price_value |-> pair_of(choice, copies, id)[day],
      availability_flag |-> TRUE,
      shipping_days_min |-> None, shipping_days_max |-> None] :
        id \in 1..(Len(choice) * copies + 1), day \in 1..2}

InitAnomalies ==
    /\ \E choice \in PairChoices, copies \in Copies :
          /\ market_listings = listings_of(choice, copies)
          /\ listing_snapshots = snapshots_of(choice, copies, 2)
    /\ model_daily_stats = {}
    /\ run = [r \in Runs |-> NoRun]
    /\ source_seen = [r \in Runs |-> 0]
    /\ ScoreIdle
    /\ va_pc = "input"
    /\ \E threshold_pct \in Thresholds :
          va_args = [model_ids |-> _get_brand_model_ids("rolex"),
                     captured_date |-> 2,
                     threshold_pct |-> threshold_pct]
    /\ va_result = <<>>

CallCheckPriceAnomalies ==
    /\ va_pc = "input"
    /\ \E order \in response_orders(anomaly_listing_ids(market_listings,
                                                        va_args.model_ids)) :
          va_result' = _check_price_anomalies(
                           va_args.model_ids, va_args.captured_date,
                           va_args.threshold_pct, market_listings,
                           listing_snapshots, order)
    /\ va_pc' = "anomalies_checked"
    /\ UNCHANGED <<va_args, pipeline_vars, sc_pc, sc_rows, sc_weights, sc_scored>>

NextAnomalies == CallCheckPriceAnomalies

SpecAnomalies == InitAnomalies /\ [][NextAnomalies]_vars

PriceOf(listing_id, captured_date) ==
    LET rows == {s \in listing_snapshots :
                    s.listing_id = listing_id /\ s.captured_date = captured_date}
    IN  IF rows = {} THEN None ELSE (CHOOSE s \in rows : TRUE).price_value

(* |curr - prev| / prev * 100 > threshold, in exact arithmetic *)
JumpExceeds(listing_id) ==
    LET curr == PriceOf(listing_id, va_args.captured_date)
        prev == PriceOf(listing_id, va_args.captured_date - 1)
    IN  /\ curr # None
        /\ prev # None
        /\ prev[1] > 0
        /\ 100 * Abs(curr[1] - prev[1]) > va_args.threshold_pct * prev[1]

GroupListingIds ==
    {l.id : l \in {x \in market_listings : x.model_id \in AsSet(va_args.model_ids)}}

\* C10 as stated: a listing of the group is flagged if and only if it has a
\* non-null price on the target date and on the day before, the prior price is
\* > 0 and |curr - prev| / prev * 100 is strictly greater than the threshold;
\* anomaly_count is the number of flagged listings and the examples are at
\* most 10 of them, in non-increasing pct_jump order.
C10_FlaggedIffJumpExceeds ==
    va_pc = "anomalies_checked" =>
        LET flagged == {id \in GroupListingIds : JumpExceeds(id)}
            examples == va_result[2]
        IN  /\ va_result[1] = Cardinality(flagged)
            /\ Len(examples) <= max_examples
            /\ Len(examples) <= va_result[1]
            /\ \A i \in 1..Len(examples) : examples[i].listing_id \in flagged
            /\ \A i, j \in 1..Len(examples) :
                  i < j => /\ examples[i].listing_id # examples[j].listing_id
                           /\ examples[i].pct_jump >= examples[j].pct_jump

-----------------------------------------------------------------------------
(* Calls of _check_duplicate_urls *)

MaxUrls == 3

(* The url column: absent or empty, blank, padded either side, with an     *)
(* inner blank                                                             *)
Urls ==
    {<<>>, <<" ">>, <<"a">>, <<" ", "a">>, <<"a", " ">>, <<"b">>, <<"a", " ", "b">>}

UrlLists == UNION {[1..n -> Urls] : n \in 0..MaxUrls}

(* How many further urls, each on two or three listings, the group has *)
FurtherUrls == {0, 11}

further_url(k) ==
    <<"x", <<"1", "2", "3", "4", "5", "6", "7", "8", "9", "A", "B">>[k]>>

further_urls(n) ==
    [i \in 1..(5 * (n \div 2) + 2 * (n % 2)) |->
        further_url(IF i <= 5 * (n \div 2)
                    THEN 2 * ((i - 1) \div 5) + (IF (i - 1) % 5 < 2 THEN 1 ELSE 2)
                    ELSE n)]

(* The listings of model 1 with the drawn urls, and one listing of a model *)
(* of another brand with the url "a"                                       *)
url_listings(urls) ==
    {[id |-> id, model_id |-> IF id > Len(urls) THEN 3 ELSE 1, created_at |-> None,
      url |-> IF id > Len(urls) THEN <<"a">> ELSE urls[id]] : id \in 1..(Len(urls) + 1)}

InitDuplicates ==
    /\ \E urls \in UrlLists, n \in FurtherUrls :
          market_listings = url_listings(urls \o further_urls(n))
    /\ listing_snapshots = {}
    /\ model_daily_stats = {}
    /\ run = [r \in Runs |-> NoRun]
    /\ source_seen = [r \in Runs |-> 0]
    /\ ScoreIdle
    /\ va_pc = "input"
    /\ \E model_ids \in {<<>>, _get_brand_model_ids("rolex")} :
          va_args = [model_ids |-> model_ids]
    /\ va_result = <<>>

CallCheckDuplicateUrls ==
    /\ va_pc = "input"
    /\ va_result' = _check_duplicate_urls(va_args.model_ids, market_listings)
    /\ va_pc' = "duplicates_checked"
    /\ UNCHANGED <<va_args, pipeline_vars, sc_pc, sc_rows, sc_weights, sc_scored>>

NextDuplicates == CallCheckDuplicateUrls

SpecDuplicates == InitDuplicates /\ [][NextDuplicates]_vars

(* The url without the blanks at its ends *)
Trimmed(url) ==
    CHOOSE t \in {SubSeq(url, i, j) : i \in 1..(Len(url) + 1), j \in 0..Len(url)} :
        /\ t = <<>> \/ (t[1] # " " /\ t[Len(t)] # " ")
        /\ \E i \in 1..(Len(url) + 1), j \in 0..Len(url) :
              /\ t = SubSeq(url, i, j)
              /\ \A k \in 1..Len(url) : (k < i \/ k > j) => url[k] = " "

GroupListings == {l \in market_listings : l.model_id \in AsSet(va_args.model_ids)}

UrlCount(url) == Cardinality({l \in GroupListings : Trimmed(l.url) = url})

DuplicateUrls ==
    {url \in {Trimmed(l.url) : l \in GroupListings} : url # <<>> /\ UrlCount(url) > 1}

\* C11: duplicate_url_count is the number of distinct trimmed, non-empty urls
\* that occur on more than one listing of the group, and the examples are the
\* first max_examples (or all, if fewer) of those urls, each once and with its
\* exact count, in non-increasing count order.
C11_DuplicateGroups ==
    va_pc = "duplicates_checked" =>
        LET examples == va_result[2]
        IN  /\ va_result[1] = Cardinality(DuplicateUrls)
            /\ Len(examples) =
                   (IF va_result[1] > max_examples THEN max_examples ELSE va_result[1])
            /\ \A i \in 1..Len(examples) :
                  /\ examples[i].url \in DuplicateUrls
                  /\ examples[i].count = UrlCount(examples[i].url)
            /\ \A i, j \in 1..Len(examples) :
                  i < j => /\ examples[i].url # examples[j].url
                           /\ examples[i].count >= examples[j].count

C11_Witness ==
    /\ va_pc = "duplicates_checked"
    /\ va_result[1] = 12
    /\ Len(va_result[2]) = max_examples
    /\ \E l \in GroupListings : l.url = <<" ", "a">>
    /\ \E l \in GroupListings : l.url = <<"a", " ">>
    /\ \E l \in GroupListings : l.url = <<" ">>
    /\ \E i \in 1..Len(va_result[2]) :
          va_result[2][i] = [url |-> <<"a">>, count |-> 2]

-----------------------------------------------------------------------------
(* Calls of _wait_band *)

(* The indexes handed to _wait_band: the hundredths of [0, 1] *)
IndexValues == {Rat(k, 100) : k \in 0..100}

InitBand ==
    /\ PipelineIdle
    /\ ScoreIdle
    /\ va_pc = "input"
    /\ \E a, b \in IndexValues : va_args = <<a, b>>
    /\ va_result = <<>>

(* One call for each of the two indexes *)
CallWaitBand ==
    /\ va_pc = "input"
    /\ va_result' = [i \in 1..Len(va_args) |-> _wait_band(va_args[i])]
    /\ va_pc' = "banded"
    /\ UNCHANGED <<va_args, pipeline_vars, sc_pc, sc_rows, sc_weights, sc_scored>>

NextBand == CallWaitBand

SpecBand == InitBand /\ [][NextBand]_vars

Bands ==
    <<"0-6 months", "6-18 months", "18 months-3 years", "3-5 years", "5-8+ years">>

BandThresholds == {Rat(25, 100), Rat(45, 100), Rat(65, 100), Rat(85, 100)}

BandRank(band) == CHOOSE i \in 1..Len(Bands) : Bands[i] = band

(* One more than the number of thresholds at or below the index *)
RankOf(index) == 1 + Cardinality({t \in BandThresholds : ~Lt(index, t)})

\* C12: the band of an index is the one above every threshold of 0.25, 0.45,
\* 0.65, 0.85 that is less than or equal to the index, so an index equal to a
\* threshold gets the band above it; and the band is non-decreasing in the
\* index.
C12_BandBoundary ==
    va_pc = "banded" =>
        /\ \A i \in 1..2 :
              /\ va_result[i] \in {Bands[k] : k \in 1..Len(Bands)}
              /\ va_result[i] = Bands[RankOf(va_args[i])]
        /\ ~Lt(va_args[2], va_args[1]) =>
               BandRank(va_result[1]) <= BandRank(va_result[2])

C12_Witness ==
    /\ va_pc = "banded"
    /\ va_args = <<Rat(25, 100), Rat(85, 100)>>
    /\ va_result = <<"6-18 months", "5-8+ years">>

-----------------------------------------------------------------------------
(* Empty scopes *)

NoModels(r) == brand_ids(run[r].brand) = {}

NoListings(r) == \A l \in market_listings : l.model_id \notin brand_ids(run[r].brand)

NoSnapshots(r) ==
    \A s \in listing_snapshots :
        ~(/\ s.captured_date = run[r].captured_date
          /\ \E row \in run[r].listing_rows : row.id = s.listing_id)

(* The step of run r skips to the persist step with an empty batch. *)
ShortCircuits(r) ==
    /\ run'[r].pc = "upsert"
    /\ run'[r].rows = <<>>
    /\ UNCHANGED store_vars

\* C13: when the brand has no models, or its models have no listings, or those
\* listings have no snapshots on the date, the fetch that finds this out goes
\* straight to the persist step with an empty batch, sending none of the later
\* fetches; the persist step of an empty batch cannot fail, returns 0 and
\* leaves model_daily_stats unchanged.
C13_EmptyShortCircuit ==
    [][\A r \in Runs :
          (run'[r] # run[r] /\ run'[r].pc # "failed") =>
              /\ (run[r].pc = "fetch_models" /\ NoModels(r)) => ShortCircuits(r)
              /\ (run[r].pc = "fetch_listings" /\ NoListings(r)) => ShortCircuits(r)
              /\ (run[r].pc = "fetch_snapshots" /\ NoSnapshots(r)) => ShortCircuits(r)
              /\ (run[r].pc = "upsert" /\ run[r].rows = <<>>) =>
                     /\ run'[r].pc = "get_brand_model_ids"
                     /\ run'[r].upserted = 0
                     /\ model_daily_stats' = model_daily_stats]_vars
       /\ [](\A r \in Runs :
                (run[r].pc = "upsert" /\ run[r].rows = <<>>) => ~ENABLED UpsertFails(r))

C13_Witness ==
    /\ run[2].brand = "tudor"
    /\ run[2].pc = "get_brand_model_ids"
    /\ run[2].upserted = 0
    /\ run[1].pc = "get_brand_model_ids"
    /\ run[1].upserted = 0
    /\ ~NoListings(1)
    /\ \E s \in listing_snapshots : s.captured_date # run[1].captured_date
    /\ SourceUnchangedSince(1)
    /\ model_daily_stats = {}

-----------------------------------------------------------------------------
(* _score_rows with weights other than the defaults *)

(* <<median_price, msrp>> of a raw row *)
WeighedPrices == {<<100, None>>, <<100, Some(100)>>, <<3433, Some(100)>>,
                  <<10100, Some(100)>>}

WeighedBatches ==
    UNION {[1..n -> RawCounts \X WeighedPrices] : n \in 0..MaxBatch}

Weights ==
    {float(-1), w1_default, float(2)} \X {float(-1), w2_default, float(2)}
        \X {float(-1), w3_default, float(2)}

InitWeights ==
    /\ PipelineIdle
    /\ CheckIdle
    /\ sc_pc = "input"
    /\ \E choice \in WeighedBatches : sc_rows = BatchOf(choice)
    /\ sc_weights \in Weights
    /\ sc_scored = <<>>

ScoreWeighted ==
    /\ sc_pc = "input"
    /\ sc_scored' = _score_rows(sc_rows, sc_weights[1], sc_weights[2], sc_weights[3])
    /\ sc_pc' = "scored"
    /\ UNCHANGED <<sc_rows, sc_weights, pipeline_vars, check_vars>>

NextWeights == ScoreWeighted

SpecWeights == InitWeights /\ [][NextWeights]_vars

(* x is a number in [0, 1]. *)
InUnit(x) == x[2] > 0 /\ 0 <= x[1] /\ x[1] <= x[2]

NormalizedInUnit(values) ==
    /\ Len(_normalize(values)) = Len(values)
    /\ \A i \in 1..Len(values) : InUnit(_normalize(values)[i])
    /\ AllEqual(values) => AllZero(_normalize(values))

\* C14: whatever the batch and the weights w1, w2, w3, every row _score_rows
\* returns has a wait_time_index in [0, 1], and each of the three normalized
\* features is in [0, 1], a feature whose max equals its min being
\* normalized to 0.0 instead of being divided by zero.
C14_BoundedIndex ==
    sc_pc = "scored" =>
        /\ Len(sc_scored) = Len(sc_rows)
        /\ \A i \in 1..Len(sc_scored) :
              0 <= sc_scored[i].wait_time_index /\ sc_scored[i].wait_time_index <= 10000
        /\ NormalizedInUnit(premiums(sc_rows))
        /\ NormalizedInUnit(availability(sc_rows))
        /\ NormalizedInUnit(velocities(sc_rows))

C14_Witness ==
    /\ sc_pc = "scored"
    /\ Len(sc_rows) = MaxBatch
    /\ sc_weights = <<float(2), float(-1), float(2)>>
    /\ AllEqual(availability(sc_rows))
    /\ ~AllEqual(premiums(sc_rows))
    /\ \E i, j \in 1..Len(sc_scored) :
          sc_scored[i].wait_time_index = 0 /\ sc_scored[j].wait_time_index = 10000

-----------------------------------------------------------------------------
(* _calc_model_raw on the rows of one model *)

MaxRows == 3

(* created_at of a listing row *)
CreatedValues == {Some(1), Some(2)}

(* What listing_snapshots holds of one listing on the date: nothing, or    *)
(* <<price_value, availability_flag>>.                                     *)
RawSnapshotValues ==
    {None, <<None, TRUE>>, <<Some(9000), TRUE>>, <<Some(10000), FALSE>>,
     <<Some(11000), TRUE>>, <<Some(11000), FALSE>>}

MsrpValues == {None, Some(0), Some(10000)}

raw_listing_rows(created) ==
    {[id |-> i, model_id |-> 1, created_at |-> created[i], url |-> <<>>] :
        i \in 1..Len(created)}

snapshot_row(listing_id, value) ==
    [listing_id |-> listing_id, price_value |-> value[1],
     availability_flag |-> value[2],
     shipping_days_min |-> None, shipping_days_max |-> None]

(* The snapshot rows of the whole brand on the date: those of the model's  *)
(* listings and, when foreign, one of a listing of another model.          *)
raw_snapshot_rows(values, foreign) ==
    {snapshot_row(i, values[i]) : i \in {j \in 1..Len(values) : values[j] # None}}
        \cup (IF foreign THEN {snapshot_row(MaxRows + 1, <<Some(5000), TRUE>>)} ELSE {})

InitRaw ==
    /\ PipelineIdle
    /\ ScoreIdle
    /\ va_pc = "input"
    /\ \E n \in 0..MaxRows :
          \E created \in [1..n -> CreatedValues], values \in [1..n -> RawSnapshotValues] :
             \E foreign \in BOOLEAN, msrp \in MsrpValues :
                va_args = [model_id |-> 1, msrp |-> msrp,
                           listing_rows |-> raw_listing_rows(created),
                           snapshot_rows |-> raw_snapshot_rows(values, foreign),
                           captured_date |-> 2]
    /\ va_result = <<>>

CallCalcModelRaw ==
    /\ va_pc = "input"
    /\ va_result' = _calc_model_raw(va_args.model_id, va_args.msrp, va_args.listing_rows, va_args.snapshot_rows, va_args.captured_date)
    /\ va_pc' = "raw_calculated"
    /\ UNCHANGED <<va_args, pipeline_vars, sc_pc, sc_rows, sc_weights, sc_scored>>

NextRaw == CallCalcModelRaw

SpecRaw == InitRaw /\ [][NextRaw]_vars

(* The matched snapshots carrying a price. *)
MatchedPriced ==
    {row \in va_args.snapshot_rows :
        /\ \E l \in va_args.listing_rows : l.id = row.listing_id
        /\ row.price_value # None}

(* The k-th smallest of the matched prices: the least price with at least *)
(* k matched prices at or below it.                                        *)
KthPrice(k) ==
    CHOOSE v \in {row.price_value[1] : row \in MatchedPriced} :
        /\ Cardinality({row \in MatchedPriced : row.price_value[1] <= v}) >= k
        /\ Cardinality({row \in MatchedPriced : row.price_value[1] < v}) < k

(* The same rows with the prices carried by the listings in another order. *)
Reordered(perm) ==
    {[row EXCEPT !.listing_id = perm[row.listing_id]] : row \in va_args.snapshot_rows}

\* C15: when a model has a priced matched snapshot, median_price is the
\* median of the matched non-null prices only: the middle price for an odd
\* count, the mean of the two middle prices for an even count, whichever
\* listing carries which price; 9000, 10000, 11000 give exactly 10000.0 and,
\* with msrp 10000, a premium of exactly 0.0.
C15_MedianPrice ==
    (va_pc = "raw_calculated" /\ MatchedPriced # {}) =>
        LET n == Cardinality(MatchedPriced)
        IN  /\ va_result # None
            /\ va_result[1].median_price =
                  IF n % 2 = 1 THEN float(KthPrice((n + 1) \div 2))
                  ELSE Rat(KthPrice(n \div 2) + KthPrice(n \div 2 + 1), 2)
            /\ \A perm \in {f \in [1..(MaxRows + 1) -> 1..(MaxRows + 1)] :
                              /\ f[MaxRows + 1] = MaxRows + 1
                              /\ \A i \in 1..(MaxRows + 1) :
                                    i > Cardinality(va_args.listing_rows) => f[i] = i
                              /\ \A i, j \in 1..(MaxRows + 1) : f[i] = f[j] => i = j} :
                  _calc_model_raw(va_args.model_id, va_args.msrp, va_args.listing_rows, Reordered(perm), va_args.captured_date)[1].median_price
                      = va_result[1].median_price
            /\ {row.price_value[1] : row \in MatchedPriced} = {9000, 10000, 11000} /\ n = 3 =>
                  /\ va_result[1].median_price = float(10000)
                  /\ va_args.msrp = Some(10000) =>
                        va_result[1].premium_over_msrp = Some(float(0))

C15_Witness ==
    /\ va_pc = "raw_calculated"
    /\ {row.price_value : row \in va_args.snapshot_rows} =
          {Some(5000), Some(9000), Some(10000), Some(11000)}
    /\ va_args.msrp = Some(10000)
    /\ va_result # None
    /\ va_result[1].median_price = float(10000)
    /\ va_result[1].premium_over_msrp = Some(float(0))

-----------------------------------------------------------------------------
(* The band and the rounded index of a scored row *)

(* The index of row i before it is rounded. *)
FullIndex(i) ==
    wait_time_index(sc_weights[1], sc_weights[2], sc_weights[3],
                    _normalize(premiums(sc_rows))[i],
                    _normalize(availability(sc_rows))[i],
                    _normalize(velocities(sc_rows))[i])

(* The stored index of row i, as a number. *)
StoredIndex(i) == Rat(sc_scored[i].wait_time_index, 10000)

\* C16 as stated: in every row _score_rows returns, wait_band is the band the
\* strict less-than thresholds assign to the stored, 4-decimal wait_time_index,
\* so a stored index of 0.25, 0.45, 0.65 or 0.85 never carries the band below
\* that threshold.
C16_BandOfStoredIndex ==
    sc_pc = "scored" =>
        \A i \in 1..Len(sc_scored) :
            BandRank(sc_scored[i].wait_band) = RankOf(StoredIndex(i))

\* C16 amended: wait_band is the band of the index before rounding; the band
\* of the stored, 4-decimal index is that band or the next one up, and it is
\* the next one up only when the stored index is exactly 0.25, 0.45, 0.65 or
\* 0.85 (the index was rounded up onto the threshold).
C16_BandOfFullIndex ==
    sc_pc = "scored" =>
        \A i \in 1..Len(sc_scored) :
            /\ BandRank(sc_scored[i].wait_band) = RankOf(FullIndex(i))
            /\ RankOf(StoredIndex(i)) \in
                  {BandRank(sc_scored[i].wait_band), BandRank(sc_scored[i].wait_band) + 1}
            /\ RankOf(StoredIndex(i)) # BandRank(sc_scored[i].wait_band) =>
                  /\ StoredIndex(i) \in BandThresholds
                  /\ Lt(FullIndex(i), StoredIndex(i))

C16_Witness ==
    /\ sc_pc = "scored"
    /\ sc_weights = <<w1_default, w2_default, w3_default>>
    /\ \E i \in 1..Len(sc_scored) :
          /\ sc_scored[i].wait_time_index = 4500
          /\ sc_scored[i].wait_band = "6-18 months"
          /\ FullIndex(i) = Rat(449985, 1000000)

-----------------------------------------------------------------------------
(* The counts and ratios of a raw record *)

(* The snapshot rows of the model's listings. *)
Matched ==
    {row \in va_args.snapshot_rows :
        \E l \in va_args.listing_rows : l.id = row.listing_id}

CreatedOnDate ==
    {l \in va_args.listing_rows : l.created_at = Some(va_args.captured_date)}

(* The velocity proxy _score_rows derives from the raw record. *)
Velocity == velocities(<<va_result[1]>>)[1]

RatiosInUnit ==
    /\ InUnit(va_result[1].availability_ratio)
    /\ InUnit(va_result[1].sold_rate_proxy)
    /\ Add(va_result[1].availability_ratio, va_result[1].sold_rate_proxy) = float(1)

-----------------------------------------------------------------------------
(* The validation pass and the tables *)

ValidationPhase ==
    {"get_brand_model_ids", "check_duplicate_urls", "check_missing_stats",
     "anomaly_listings", "anomaly_snapshots"}

SameReport(a, b) ==
    /\ [a EXCEPT !.anomaly_examples = <<>>] = [b EXCEPT !.anomaly_examples = <<>>]
    /\ AsSet(a.anomaly_examples) = AsSet(b.anomaly_examples)

\* C18: the validation pass is read-only: no step of run_ingest_validations
\* changes a row of model_daily_stats, market_listings or listing_snapshots,
\* nor (unless it raises) what the pipeline returned, nor what another run
\* holds; so two runs of the
\* same brand and date over an unchanged source, each validating after the
\* other may have validated, return the same report.
C18_ValidationReadOnly ==
    /\ [][\A r \in Runs :
             (run[r].pc \in ValidationPhase /\ run'[r] # run[r]) =>
                 /\ UNCHANGED store_vars
                 /\ run'[r].pc # "failed" => run'[r].upserted = run[r].upserted
                 /\ \A q \in Runs \ {r} : run'[q] = run[q]]_vars
    /\ [](\A r1, r2 \in Runs :
             (/\ r1 # r2
              /\ run[r1].pc = "done" /\ run[r2].pc = "done"
              /\ SameKey(r1, r2)
              /\ SourceUnchangedSince(r1) /\ SourceUnchangedSince(r2)) =>
                 SameReport(run[r1].validation[1], run[r2].validation[1]))

C18_Witness ==
    /\ run[1].pc = "done" /\ run[2].pc = "done"
    /\ SameKey(1, 2)
    /\ SourceUnchangedSince(1) /\ SourceUnchangedSince(2)
    /\ model_daily_stats # {}
    /\ Cardinality(market_listings) = 2
    /\ Cardinality(listing_snapshots) = 2
    /\ run[1].validation[1].missing_stats_count > 0
    /\ run[1].validation[1].duplicate_url_count > 0
    /\ run[2].validation = run[1].validation

====
